---- MODULE Spec2Model ----
(***************************************************************************)
(* LAN Network Health API (src/main.py): a FastAPI service that keeps the  *)
(* latest health report of every device in the module-level dict LATEST.   *)
(*                                                                         *)
(* Spec      requests served one at a time, one action per route handler.  *)
(* ConcSpec  requests served by two of the worker threads FastAPI runs     *)
(*           `def` handlers in, one action per step of a handler that      *)
(*           touches LATEST or the clock.                                  *)
(*                                                                         *)
(* Numbers are held in tenths (425 is 42.5), the clock in ticks of         *)
(* 1/TicksPerSec second.                                                   *)
(***************************************************************************)
EXTENDS Integers, Sequences, FiniteSets, TLC

VARIABLES
    LATEST,    \* main.py:16  device id -> NoEntry or [data, ts]
    order,     \* main.py:16  the dict's keys in insertion order
    now,       \* time.time(), in ticks
    resp,      \* the request the last step answered and its response
    sent,      \* Spec, history: device id -> body of its latest successful POST
    replaced,  \* Spec, history: the entry the last step overwrote
    th         \* ConcSpec: worker thread -> request in progress and its locals

vars == <<LATEST, order, now, resp, sent, replaced, th>>

----------------------------------------------------------------------------
(* Bounds *)

MaxTime == 2        \* the clock runs from 0 to MaxTime seconds

\* ticks in a second: time.time() is a float, age has a fractional part
TicksPerSec == 2

(* STALE_SECONDS = int(os.getenv("STALE_SECONDS", "300")), here configured  *)
(* to one second.                                                           *)
STALE_SECONDS == 1

MaxTick == MaxTime * TicksPerSec
\* worker threads of ConcSpec
Threads == {"w1", "w2"}

----------------------------------------------------------------------------
(* JSON values.  Every value is a record of the same three fields so that   *)
(* values of different JSON types can be compared.                          *)

Absent == [t |-> "absent", n |-> 0, s |-> ""]   \* key not in the body
Null   == [t |-> "null",   n |-> 0, s |-> ""]   \* JSON null / Python None
Num(x) == [t |-> "num",    n |-> x, s |-> ""]   \* JSON number, x in tenths
Str(x) == [t |-> "str",    n |-> 0, s |-> x]    \* JSON string
Obj(x) == [t |-> "obj",    n |-> 0, s |-> x]    \* JSON object, opaque

(* The strings of the model that Python's float()/int() parse, and their    *)
(* value in tenths.                                                         *)
NumLit == ("42" :> 420) @@ ("150" :> 1500)

MAKE_API_KEY == "make_network_health"
Devices == {"rpi-1", "RPI-1"}

(* Declared fields of HealthPayload, and a key the schema does not declare. *)
Fields == {"device_id", "cpu", "ram", "temperature", "status", "health_score", "extra"}
BodyKeys == Fields \cup {"location"}

----------------------------------------------------------------------------
(* pydantic validation of HealthPayload, field by field.  The result is     *)
(* Invalid or the validated value (Null for None).                          *)

Invalid == [t |-> "invalid", n |-> 0, s |-> ""]

\* str, lax mode: a str only; numbers are not converted to str
AsStr(v) == IF v.t = "str" THEN v ELSE Invalid

\* float, lax mode: a number, or a string that parses as one
AsFloat(v) ==
    CASE v.t = "num" -> v
      [] v.t = "str" /\ v.s \in DOMAIN NumLit -> Num(NumLit[v.s])
      [] OTHER -> Invalid

\* int, lax mode: a number with no fractional part, or a string of digits
AsInt(v) ==
    CASE v.t = "num" /\ v.n % 10 = 0 -> v
      [] v.t = "str" /\ v.s \in DOMAIN NumLit -> Num(NumLit[v.s])
      [] OTHER -> Invalid

\* Dict[str, Any]
AsDict(v) == IF v.t = "obj" THEN v ELSE Invalid

\* Optional[T] = default: a missing key takes the default, null is None
\* (converted is the value's conversion to T)
OptionalField(v, default, converted) ==
    CASE v = Absent -> default
      [] v = Null -> Null
      [] OTHER -> converted

\* Field(ge=0, le=100)
InRangeUnchecked(v) == v
InRange(v) == IF v.t = "num" /\ (v.n < 0 \/ v.n > 1000) THEN Invalid ELSE v

\* device_id: str = Field(..., min_length=1)
DeviceIdField(v) ==
    IF v.t = "str" /\ v.s # "" THEN v ELSE Invalid

\* HealthPayload(**body): undeclared keys are ignored
HealthPayload(body) ==
    [f \in Fields |->
        CASE f = "device_id"    -> DeviceIdField(body[f])
          [] f = "cpu"          -> InRange(OptionalField(body[f], Null, AsFloat(body[f])))
          [] f = "ram"          -> InRange(OptionalField(body[f], Null, AsFloat(body[f])))
          [] f = "temperature"  -> OptionalField(body[f], Null, AsFloat(body[f]))
          [] f = "status"       -> OptionalField(body[f], Str("OK"), AsStr(body[f]))
          [] f = "health_score" -> InRange(OptionalField(body[f], Null, AsInt(body[f])))
          [] f = "extra"        -> OptionalField(body[f], Null, AsDict(body[f]))]

\* a body some field of which fails validation is answered 422
Validates(body) == \A f \in Fields : HealthPayload(body)[f] # Invalid

\* payload.model_dump(exclude_none=True)
ModelDump(payload) ==
    [f \in {g \in Fields : payload[g] # Null} |-> payload[f]]

\* data.setdefault("status", "UNKNOWN")
SetDefaultStatus(data) ==
    IF "status" \in DOMAIN data THEN data ELSE data @@ ("status" :> Str("UNKNOWN"))

\* the record report_health stores for a validated payload
BuildData(payload) == SetDefaultStatus(ModelDump(payload))

----------------------------------------------------------------------------
(* Requests *)

\* X-API-Key header: not sent, the configured secret, another value
Headers == {Absent, Str(MAKE_API_KEY), Str("make_network_healt")}

\* An empty body: every key absent
EmptyBody == [k \in BodyKeys |-> Absent]
With(body, k, v) == [body EXCEPT ![k] = v]

\* POST bodies without their device_id: accepted ones
ValidTemplates == {
    \* {"cpu": 42.5, "ram": 60}
    With(With(EmptyBody, "cpu", Num(425)), "ram", Num(600)),
    \* {"status": "OK", "health_score": 90}
    With(With(EmptyBody, "status", Str("OK")), "health_score", Num(900)),
    \* {"status": null, "cpu": null, "temperature": "42", "extra": {..}, "location": "lab"}
    With(With(With(With(With(EmptyBody, "status", Null), "cpu", Null),
        "temperature", Str("42")), "extra", Obj("{fan: 1}")), "location", Str("lab")) }

\* and rejected ones
InvalidTemplates == {
    \* {"cpu": 150}
    With(EmptyBody, "cpu", Num(1500)),
    \* {"health_score": 90.5, "status": 1}
    With(With(EmptyBody, "health_score", Num(905)), "status", Num(10)) }

\* every template for every device, and a body with an empty and with no
\* device_id
Bodies ==
    {With(b, "device_id", Str(d)) : b \in ValidTemplates \cup InvalidTemplates, d \in Devices}
    \cup {With(With(EmptyBody, "cpu", Num(425)), "device_id", Str("")),
          With(EmptyBody, "cpu", Num(425))}

\* device_id query parameter of GET /device/health
QueryIds == {Str(d) : d \in Devices} \cup {Absent}

----------------------------------------------------------------------------
(* The store *)

NoData == [f \in {} |-> Absent]
NoBody == [k \in {} |-> Absent]
NoEntry == [data |-> NoData, ts |-> -1]
NoResult == [d \in {} |-> NoData]

\* LATEST.get(device_id)
Fold(id) == IF id = "RPI-1" THEN "rpi-1" ELSE id
GetAnyCase(store, id) ==
    IF \E k \in DOMAIN store : Fold(k) = Fold(id)
    THEN store[CHOOSE k \in DOMAIN store : Fold(k) = Fold(id)]
    ELSE [data |-> [f \in {} |-> Absent], ts |-> -1]
Get(store, id) == IF id \in DOMAIN store THEN store[id] ELSE NoEntry

\* LATEST[device_id] = {"data": data, "ts": ts}
SetItemMerge(store, id, data, ts) ==
    [k \in DOMAIN store \cup {id} |->
        IF k = id
        THEN [data |-> IF id \in DOMAIN store THEN data @@ store[id].data ELSE data,
              ts |-> ts]
        ELSE store[k]]
SetItem(store, id, data, ts) ==
    [k \in DOMAIN store \cup {id} |->
        IF k = id THEN [data |-> data, ts |-> ts] ELSE store[k]]

\* a dict keeps its keys in insertion order; assigning to a key it holds
\* keeps the key's place
Inserted(keys, id) ==
    IF \E i \in 1 .. Len(keys) : keys[i] = id THEN keys ELSE Append(keys, id)

\* age = time.time() - float(item["ts"]);  age > STALE_SECONDS
Age(item, t) == t - item.ts
IsStaleInclusive(age) == age >= STALE_SECONDS * TicksPerSec
IsStale(age) == age > STALE_SECONDS * TicksPerSec

\* int(age), in seconds
IntAge(age) == age \div TicksPerSec

\* {k: v["data"] for k, v in LATEST.items()}
AllDataFresh(store) ==
    [k \in {d \in DOMAIN store : now - store[d].ts <= STALE_SECONDS * TicksPerSec} |->
        store[k].data]
AllData(store) == [k \in DOMAIN store |-> store[k].data]

----------------------------------------------------------------------------
(* Request handling: FastAPI resolves the dependency require_key, then the  *)
(* route's own parameters, then calls the handler.                          *)

\* x_api_key: str = Header(...): a request without the header fails
\* validation of the dependency's parameter and require_key is not called
HeaderValidates(h) == h # Absent

\* require_key
KeyAccepted(h) == h.s = MAKE_API_KEY

\* status the request is answered with before the handler runs, 0 if it runs
Rejection(h, paramsValid) ==
    CASE ~HeaderValidates(h) -> 422
      [] ~KeyAccepted(h) -> 401
      [] ~paramsValid -> 422
      [] OTHER -> 0

Response(route, h, id, body, code, data, all, age) ==
    [route |-> route, key |-> h, id |-> id, body |-> body, code |-> code,
     data |-> data, all |-> all, age |-> age]

NoResp == [route |-> "", key |-> Absent, id |-> Absent, body |-> NoBody, code |-> 0,
           data |-> NoData, all |-> NoResult, age |-> 0]

\* a worker thread: the request it serves, its position in the handler, the
\* handler's locals and the response
Idle == [pc |-> "idle", route |-> "", key |-> Absent, id |-> "", data |-> NoData,
         ts |-> 0, item |-> NoEntry, used |-> 0, pos |-> 0, all |-> NoResult]

Init ==
    /\ LATEST = [d \in {} |-> NoEntry]
    /\ order = <<>>
    /\ now = 0
    /\ resp = NoResp
    /\ sent = [d \in {} |-> NoBody]
    /\ replaced = NoEntry
    /\ th = [t \in Threads |-> Idle]

\* GET /
Root(h) ==
    /\ resp' = Response("root", h, Absent, NoBody,
                        IF Rejection(h, TRUE) # 0 THEN Rejection(h, TRUE) ELSE 200,
                        NoData, NoResult, 0)
    /\ replaced' = NoEntry
    /\ UNCHANGED <<LATEST, order, now, sent, th>>

\* POST /device/report
ReportHealth(h, body) ==
    LET rej == Rejection(h, Validates(body))
        id == body["device_id"].s
        data == BuildData(HealthPayload(body))
    IN  IF rej # 0
        THEN /\ resp' = Response("report", h, body["device_id"], body, rej,
                                 NoData, NoResult, 0)
             /\ replaced' = NoEntry
             /\ UNCHANGED <<LATEST, order, now, sent, th>>
        ELSE /\ LATEST' = SetItem(LATEST, id, data, now)
             /\ order' = Inserted(order, id)
             /\ sent' = [k \in DOMAIN sent \cup {id} |-> IF k = id THEN body ELSE sent[k]]
             /\ replaced' = Get(LATEST, id)
             /\ resp' = Response("report", h, body["device_id"], body, 200,
                                 NoData, NoResult, 0)
             /\ UNCHANGED <<now, th>>

\* GET /device/health
GetHealth(h, q) ==
    LET rej == Rejection(h, q # Absent)
        item == Get(LATEST, q.s)
        age == Age(item, now)
    IN  /\ resp' =
            CASE rej # 0 -> Response("health", h, q, NoBody, rej, NoData, NoResult, 0)
              [] item = NoEntry ->
                    Response("health", h, q, NoBody, 404, NoData, NoResult, 0)
              [] IsStale(age) ->
                    Response("health", h, q, NoBody, 503, NoData, NoResult, IntAge(age))
              [] OTHER ->
                    Response("health", h, q, NoBody, 200, item.data, NoResult, 0)
        /\ replaced' = NoEntry
        /\ UNCHANGED <<LATEST, order, now, sent, th>>

\* GET /devices/health
AllHealth(h) ==
    /\ resp' =
          IF Rejection(h, TRUE) # 0
          THEN Response("devices", h, Absent, NoBody, Rejection(h, TRUE),
                        NoData, NoResult, 0)
          ELSE Response("devices", h, Absent, NoBody, 200, NoData, AllData(LATEST), 0)
    /\ replaced' = NoEntry
    /\ UNCHANGED <<LATEST, order, now, sent, th>>

\* time passes
Tick ==
    /\ now < MaxTick
    /\ now' = now + 1
    /\ resp' = NoResp
    /\ replaced' = NoEntry
    /\ UNCHANGED <<LATEST, order, sent, th>>

Next ==
    \/ \E h \in Headers : Root(h)
    \/ \E h \in Headers, body \in Bodies : ReportHealth(h, body)
    \/ \E h \in Headers, q \in QueryIds : GetHealth(h, q)
    \/ \E h \in Headers : AllHealth(h)
    \/ Tick

Spec == Init /\ [][Next]_vars

----------------------------------------------------------------------------
(* ConcSpec: the handlers are plain `def` functions, which FastAPI runs in  *)
(* worker threads; a thread switch can fall between any two of the steps    *)
(* below.  A step is one access to LATEST or to the clock.  resp is the     *)
(* response the last step sent, NoResp if it sent none.                     *)

\* bodies of the concurrent POSTs
ConcBodies == {
    \* {"device_id": "rpi-1", "cpu": 42.5, "ram": 60}
    With(With(With(EmptyBody, "cpu", Num(425)), "ram", Num(600)), "device_id", Str("rpi-1")),
    \* {"device_id": "rpi-1", "status": null, "health_score": 90}
    With(With(With(EmptyBody, "status", Null), "health_score", Num(900)),
         "device_id", Str("rpi-1")),
    \* {"device_id": "RPI-1", "status": "OK"}
    With(With(EmptyBody, "status", Str("OK")), "device_id", Str("RPI-1")),
    \* {"device_id": "RPI-1", "cpu": 150}
    With(With(EmptyBody, "cpu", Num(1500)), "device_id", Str("RPI-1")) }

\* the thread's response is sent and the thread returns to the pool
Reply(t, code, data, all, age) ==
    /\ resp' = Response(th[t].route, th[t].key, Str(th[t].id), NoBody, code, data, all, age)
    /\ th' = [th EXCEPT ![t] = Idle]

\* return item["data"]
ItemDataReread(t) == Get(LATEST, th[t].id).data
ItemData(t) == th[t].item.data

\* the request is rejected before the handler runs, or the handler starts
Begin(t, route, h, id, paramsValid, pc, data) ==
    /\ th[t].pc = "idle"
    /\ IF Rejection(h, paramsValid) # 0
       THEN /\ resp' = Response(route, h, Absent, NoBody, Rejection(h, paramsValid),
                                NoData, NoResult, 0)
            /\ UNCHANGED th
       ELSE /\ th' = [th EXCEPT ![t] = [Idle EXCEPT !.pc = pc, !.route = route,
                                            !.key = h, !.id = id, !.data = data]]
            /\ resp' = NoResp
    /\ UNCHANGED <<LATEST, order, now, sent, replaced>>

\* return {"status": "API is running"}
ConcRoot(t, h) ==
    /\ th[t].pc = "idle"
    /\ resp' = Response("root", h, Str(""), NoBody,
                        IF Rejection(h, TRUE) # 0 THEN Rejection(h, TRUE) ELSE 200,
                        NoData, NoResult, 0)
    /\ UNCHANGED <<LATEST, order, now, sent, replaced, th>>

\* data = payload.model_dump(exclude_none=True); data.setdefault(..)
BeginReport(t, h, body) ==
    Begin(t, "report", h, body["device_id"].s, Validates(body), "r_time",
          IF Validates(body) THEN BuildData(HealthPayload(body)) ELSE NoData)

BeginHealth(t, h, q) == Begin(t, "health", h, q.s, q # Absent, "g_get", NoData)

BeginDevices(t, h) == Begin(t, "devices", h, "", TRUE, "a_iter", NoData)

\* "ts": time.time()
ReportTime(t) ==
    /\ th[t].pc = "r_time"
    /\ th' = [th EXCEPT ![t].pc = "r_store", ![t].ts = now]
    /\ resp' = NoResp
    /\ UNCHANGED <<LATEST, order, now, sent, replaced>>

\* LATEST[payload.device_id] = {...}; return {"ok": True, ..}
ReportStore(t) ==
    /\ th[t].pc = "r_store"
    /\ LATEST' = SetItem(LATEST, th[t].id, th[t].data, th[t].ts)
    /\ order' = Inserted(order, th[t].id)
    /\ Reply(t, 200, NoData, NoResult, 0)
    /\ UNCHANGED <<now, sent, replaced>>

\* item = LATEST.get(device_id); if not item: raise 404
HealthGet(t) ==
    /\ th[t].pc = "g_get"
    /\ IF Get(LATEST, th[t].id) = NoEntry
       THEN Reply(t, 404, NoData, NoResult, 0)
       ELSE /\ th' = [th EXCEPT ![t].pc = "g_time", ![t].item = Get(LATEST, th[t].id)]
            /\ resp' = NoResp
    /\ UNCHANGED <<LATEST, order, now, sent, replaced>>

\* age = time.time() - float(item["ts"]); if age > STALE_SECONDS: raise 503
HealthAge(t) ==
    /\ th[t].pc = "g_time"
    /\ IF IsStale(Age(th[t].item, now))
       THEN Reply(t, 503, NoData, NoResult, IntAge(Age(th[t].item, now)))
       ELSE /\ th' = [th EXCEPT ![t].pc = "g_ret"]
            /\ resp' = NoResp
    /\ UNCHANGED <<LATEST, order, now, sent, replaced>>

\* return item["data"]
HealthReturn(t) ==
    /\ th[t].pc = "g_ret"
    /\ Reply(t, 200, ItemData(t), NoResult, 0)
    /\ UNCHANGED <<LATEST, order, now, sent, replaced>>

\* LATEST.items() and the iterator over it, which remembers the dict's size
DevicesIter(t) ==
    /\ th[t].pc = "a_iter"
    /\ th' = [th EXCEPT ![t].pc = "a_next", ![t].used = Len(order), ![t].pos = 0]
    /\ resp' = NoResp
    /\ UNCHANGED <<LATEST, order, now, sent, replaced>>

\* one turn of the comprehension: the iterator raises RuntimeError
\* ("dictionary changed size during iteration") when the dict's size is
\* not the one it remembers, which the server answers with 500
DevicesNext(t) ==
    /\ th[t].pc = "a_next"
    /\ CASE Len(order) # th[t].used -> Reply(t, 500, NoData, NoResult, 0)
         [] Len(order) = th[t].used /\ th[t].pos = th[t].used ->
                Reply(t, 200, NoData, th[t].all, 0)
         [] OTHER ->
                /\ th' = [th EXCEPT ![t].pos = @ + 1,
                            ![t].all = @ @@ (order[th[t].pos + 1] :>
                                               LATEST[order[th[t].pos + 1]].data)]
                /\ resp' = NoResp
    /\ UNCHANGED <<LATEST, order, now, sent, replaced>>

\* time passes, a second at a time
ConcTick ==
    /\ now + TicksPerSec <= MaxTick
    /\ now' = now + TicksPerSec
    /\ resp' = NoResp
    /\ UNCHANGED <<LATEST, order, sent, replaced, th>>

ConcNext ==
    \/ \E t \in Threads, h \in Headers : ConcRoot(t, h)
    \/ \E t \in Threads, h \in Headers, body \in ConcBodies : BeginReport(t, h, body)
    \/ \E t \in Threads, h \in Headers, q \in QueryIds : BeginHealth(t, h, q)
    \/ \E t \in Threads, h \in Headers : BeginDevices(t, h)
    \/ \E t \in Threads : ReportTime(t)
    \/ \E t \in Threads : ReportStore(t)
    \/ \E t \in Threads : HealthGet(t)
    \/ \E t \in Threads : HealthAge(t)
    \/ \E t \in Threads : HealthReturn(t)
    \/ \E t \in Threads : DevicesIter(t)
    \/ \E t \in Threads : DevicesNext(t)
    \/ ConcTick

ConcSpec == Init /\ [][ConcNext]_vars

----------------------------------------------------------------------------
(* Properties *)

GoodKey == Str(MAKE_API_KEY)
StaleTicks == STALE_SECONDS * TicksPerSec

\* the keys a body supplies with a value that is not null
Supplied(body) == {k \in DOMAIN body : body[k] # Absent /\ body[k] # Null}

\* the body with every null key left out
WithoutNulls(body) == [k \in DOMAIN body |-> IF body[k] = Null THEN Absent ELSE body[k]]

\* the device id a response is about
RespId == resp.id.s

(* C1: on every route a request whose API key is missing or wrong is       *)
(* answered 401, whatever its body or query.                                *)
C1_BadKeyIs401 ==
    (resp.route # "" /\ resp.key # GoodKey) => resp.code = 401

(* C2: a GET /device/health answered 200 returns exactly the fields the     *)
(* device's latest successful POST supplied, with the values the service    *)
(* accepted for them, plus status "UNKNOWN" if and only if the POST         *)
(* supplied no status.                                                      *)
C2_Claimed(body) ==
    [f \in (Supplied(body) \cap Fields) \cup {"status"} |->
        IF f \in Supplied(body) THEN HealthPayload(body)[f] ELSE Str("UNKNOWN")]
C2_GetReturnsPosted ==
    (resp.route = "health" /\ resp.code = 200) => resp.data = C2_Claimed(sent[RespId])

(* C3: after a successful POST for a device id the store holds one entry    *)
(* for it, built from that POST's body alone (no field of the entry it      *)
(* replaced survives unless the body supplies it), stamped with the time    *)
(* of that POST; both GET routes read that record.                          *)
C3_Overwrite ==
    (resp.route = "report" /\ resp.code = 200) =>
        /\ Cardinality({i \in 1 .. Len(order) : order[i] = RespId}) = 1
        /\ LATEST[RespId].ts = now
        /\ DOMAIN LATEST[RespId].data \subseteq Supplied(resp.body) \cup {"status"}
        /\ \A f \in Supplied(resp.body) \cap Fields : f \in DOMAIN LATEST[RespId].data
        /\ \A f \in DOMAIN replaced.data \ (Supplied(resp.body) \cup {"status"}) :
                /\ f \notin DOMAIN Get(LATEST, RespId).data
                /\ f \notin DOMAIN AllData(LATEST)[RespId]
C3_Witness ==
    /\ resp.route = "report" /\ resp.code = 200
    /\ replaced # NoEntry /\ replaced.ts < now
    /\ \E f \in DOMAIN replaced.data : f \notin DOMAIN LATEST[RespId].data

(* C4: an authenticated GET /device/health for an id that has an entry is   *)
(* answered 200 with the stored record when age <= STALE_SECONDS and 503    *)
(* with the age truncated to whole seconds when age > STALE_SECONDS; never  *)
(* 404.                                                                     *)
C4_Staleness ==
    (resp.route = "health" /\ resp.key = GoodKey /\ resp.id # Absent
        /\ RespId \in DOMAIN LATEST) =>
        LET age == now - LATEST[RespId].ts
        IN  /\ age <= StaleTicks => (resp.code = 200 /\ resp.data = LATEST[RespId].data)
            /\ age > StaleTicks =>
                    /\ resp.code = 503
                    /\ resp.age * TicksPerSec <= age
                    /\ age < (resp.age + 1) * TicksPerSec
C4_Witness ==
    /\ resp.route = "health" /\ resp.code = 503
    /\ (now - LATEST[RespId].ts) % TicksPerSec # 0

(* C5: an authenticated GET /device/health for an id that never had a       *)
(* successful POST is answered 404, whatever the store holds for other      *)
(* ids, ids being compared exactly.                                         *)
C5_UnknownIs404 ==
    (resp.route = "health" /\ resp.key = GoodKey /\ resp.id # Absent
        /\ RespId \notin DOMAIN sent) => resp.code = 404
C5_Witness ==
    /\ resp.route = "health" /\ resp.code = 404 /\ RespId = "rpi-1"
    /\ "RPI-1" \in DOMAIN sent
    /\ now - LATEST["RPI-1"].ts <= StaleTicks

C7_Step ==
    \A t \in Threads :
        /\ (th[t].pc = "g_get" /\ th'[t].pc = "g_time") =>
                /\ th'[t].item = LATEST[th[t].id]
                /\ th'[t].item.data["device_id"] = Str(th[t].id)
        /\ (th[t].pc = "g_time" /\ th'[t].pc = "idle") =>
                /\ resp'.code = 503
                /\ now - th[t].item.ts > StaleTicks
        /\ (th[t].pc = "g_time" /\ th'[t].pc = "g_ret") =>
                /\ th'[t].item = th[t].item
                /\ now - th[t].item.ts <= StaleTicks
        /\ (th[t].pc = "g_ret" /\ th'[t].pc = "idle") =>
                /\ resp'.code = 200
                /\ resp'.data = th[t].item.data
        /\ (th[t].pc = "r_store" /\ th'[t].pc = "idle") =>
                /\ LATEST'[th[t].id] = [data |-> th[t].data, ts |-> th[t].ts]
                /\ \A e \in DOMAIN LATEST \ {th[t].id} : LATEST'[e] = LATEST[e]
C7_Atomic == [][C7_Step]_vars
C7_Witness ==
    /\ resp.route = "health" /\ resp.code = 200
    /\ resp.data # LATEST[RespId].data

(* C8: only a POST /device/report that passes authentication and            *)
(* validation changes the store; every other request leaves it as it was    *)
(* and no entry is ever removed.                                            *)
C8_ClaimedInvalid(body) ==
    \/ body["device_id"].t # "str" \/ body["device_id"].s = ""
    \/ \E f \in {"cpu", "ram", "health_score"} :
            body[f].t = "num" /\ (body[f].n < 0 \/ body[f].n > 1000)
C8_Step ==
    /\ LATEST' # LATEST =>
            /\ resp'.route = "report" /\ resp'.code = 200 /\ resp'.key = GoodKey
            /\ ~C8_ClaimedInvalid(resp'.body)
    /\ (resp'.route \in {"root", "health", "devices"}
            \/ resp'.code \in {401, 422, 404, 503}) => LATEST' = LATEST
    /\ DOMAIN LATEST \subseteq DOMAIN LATEST'
C8_Frame == [][C8_Step]_vars
C8_Witness ==
    /\ resp.route = "report" /\ resp.code = 422 /\ resp.key = GoodKey
    /\ DOMAIN LATEST # {}

(* C9: every stored record has no null value, has a status, has no other    *)
(* key the latest successful POST did not supply with a value, and is the   *)
(* record the same body would give with its null keys left out.             *)
C9_StoredRecords ==
    \A id \in DOMAIN LATEST :
        LET data == LATEST[id].data
        IN  /\ \A f \in DOMAIN data : data[f] # Null /\ data[f] # Absent
            /\ "status" \in DOMAIN data
            /\ DOMAIN data \ {"status"} \subseteq Supplied(sent[id])
            /\ data = BuildData(HealthPayload(WithoutNulls(sent[id])))

(* C10: an authenticated GET /devices/health is always answered 200, also   *)
(* beside POSTs that insert a new id, and every record it returns is a      *)
(* record a POST built for that id.                                         *)
C10_AlwaysCompletes ==
    (resp.route = "devices" /\ resp.key = GoodKey) =>
        /\ resp.code = 200
        /\ \A k \in DOMAIN resp.all :
                \E b \in ConcBodies :
                    /\ Validates(b) /\ b["device_id"] = Str(k)
                    /\ resp.all[k] = BuildData(HealthPayload(b))

====
